---- MODULE Spec2Model ----
(***************************************************************************)
(* A model of the image chunking subsystem of image_analyzer:              *)
(*   - the Tile Planner   (core/chunking/image_chunker.py,                 *)
(*                         calculate_optimal_chunks and the planning part  *)
(*                         of chunk_image),                                *)
(*   - the Tile Extractor (chunk_image),                                   *)
(*   - the Chunk Orchestrator (core/chunking/chunk_processor.py,           *)
(*                         analyze_image_in_chunks).                       *)
(*                                                                         *)
(* Floating point numbers of the source (target_aspect_ratio,              *)
(* overlap_percent) are exact rationals <<numerator, denominator>>; the    *)
(* values drawn below are ones for which int(...) of the float expression  *)
(* equals the floor of the rational one on the whole input domain.         *)
(***************************************************************************)
EXTENDS Integers, Sequences, FiniteSets, TLC

(***************************************************************************)
(* Bounds of the model.                                                    *)
(***************************************************************************)
\* largest small image width / height / max_dim drawn for the planner
MaxW == 6
MaxH == 6
MaxD == 6
\* largest number of boxes in the plan of an image given to the orchestrator
MaxTiles == 4
\* the same, for an image the orchestrator is called on twice
MaxTilesTwice == 2
\* the largest width and height of a region given to is_image_blank
MaxSide == 5

VARIABLES
    \* ---- the arguments of one planning call (both specifications) ----
    args,              \* width, height of the image; target_aspect_ratio, overlap_percent, max_dim
    \* ---- Tile Planner, checked alone (SpecPlan) ----
    plan_pc,           \* "call" | "returned" | "raised"; "idle" in Spec
    plan_out,          \* the list of boxes returned
    \* ---- analyze_image_in_chunks (Spec): its inputs ----
    readable,          \* Image.open(image_path) succeeds
    blank_boxes,       \* content of the image: the boxes of the plan whose crop is blank
    prompt,            \* the caller's prompt, NoPrompt for None
    fault,             \* the tiles whose save, reopening or blankness analysis raises
    \* ---- analyze_image_in_chunks (Spec): its locals ----
    pc,                \* "start" | "fast_call" | "staging" | "tile_loop" | "tile_call" |
                       \* "final_call" | "done" | "raised"
    chunks,            \* the list chunk_image returned
    chunk_paths,       \* the staged tile files
    valid_chunk_paths,
    valid_chunks_idx,
    idx,               \* the position of the tile loop in valid_chunks_idx
    chunk_prompts,
    chunk_analyses,
    combined_text,
    result,            \* the tuple returned to the caller
    raised,            \* the exception that left the function, "none" when it returned
    \* ---- the environment ----
    temp_dir,          \* "none" | "created" | "removed"
    temp_files,        \* the files in temp_dir
    calls,             \* the gateway calls made, in order
    replies,           \* what each finished gateway call returned, in order
    errors,            \* the messages of logger.error, in order
    \* ---- the function called again on the same image ----
    run,               \* 1 in the first call of the function, 2 in the second
    first_run,         \* the calls, the replies and the result of the first call
    \* ---- chunk_image, checked alone (SpecChunk) ----
    chunk_pc,          \* "call" | "returned"; "idle" in the other specifications
    save_chunks,       \* the parameter save_chunks
    output_files,      \* the names of the files written to output_dir, in order
    \* ---- is_image_blank on a region of pixels (SpecBlank) ----
    blank_pc,          \* "call" | "returned"; "idle" in the other specifications
    region,            \* the image given: its mode, size, pixels and palette
    threshold,         \* the parameter threshold
    is_blank,          \* the value returned
    \* ---- one gateway call with its retries (SpecGateway) ----
    gw_pc,             \* "loop" | "attempt" | "returned"; "idle" in the other specifications
    gw_call,           \* the function called and its input
    attempts,          \* the local attempts
    slept,             \* the arguments of time.sleep, in order
    attempt_outcomes,  \* how each remote attempt ended, in order
    gw_result          \* the value returned

plan_vars == <<args, plan_pc, plan_out>>

input_vars == <<readable, blank_boxes, prompt, fault>>

local_vars == <<pc, chunks, chunk_paths, valid_chunk_paths, valid_chunks_idx, idx,
                chunk_prompts, chunk_analyses, combined_text, result, raised>>

env_vars == <<temp_dir, temp_files, calls, replies, errors>>

run_vars == <<run, first_run>>

chunk_vars == <<chunk_pc, save_chunks, output_files>>

blank_vars == <<blank_pc, region, threshold, is_blank>>

gateway_vars == <<gw_pc, gw_call, attempts, slept, attempt_outcomes, gw_result>>

unit_vars == <<chunk_vars, blank_vars, gateway_vars>>

vars == <<plan_vars, input_vars, local_vars, env_vars, run_vars, unit_vars>>

(***************************************************************************)
(* Helpers.                                                                *)
(***************************************************************************)
Min(a, b) == IF a <= b THEN a ELSE b

Max(a, b) == IF a >= b THEN a ELSE b

Range(s) == { s[k] : k \in 1..Len(s) }

\* Always TRUE. TLC passes an argument unevaluated; a loop tests Evaluated(list)
\* before its next iteration so that the list is built iteration by iteration.
Evaluated(list) == Len(list) >= 0

\* Optional[float] = None
None == <<0, 0>>

(***************************************************************************)
(* calculate_optimal_chunks                                                *)
(***************************************************************************)
\* lines 31-39: the ratio used when target_aspect_ratio is None
dynamic_aspect_ratio(image_width) ==
    IF image_width > 2000 THEN <<8, 5>>
    ELSE IF image_width > 1200 THEN <<7, 5>>
    ELSE <<6, 5>>

effective_aspect_ratio(image_width, target_aspect_ratio) ==
    IF target_aspect_ratio = None
    THEN dynamic_aspect_ratio(image_width)
    ELSE target_aspect_ratio

\* lines 42-53 with the portrait tile computed as chunk_height / ratio
chunk_size_mut(image_width, image_height, ratio, max_dim) ==
    LET wide == ratio[1] > ratio[2]
        w0 == IF wide THEN Min(max_dim, image_width)
                      ELSE (Min(max_dim, image_height) * ratio[2]) \div ratio[1]
        h0 == IF wide THEN (Min(max_dim, image_width) * ratio[2]) \div ratio[1]
                      ELSE Min(max_dim, image_height)
    IN  <<Min(w0, image_width), Min(h0, image_height)>>

\* lines 42-53: <<chunk_width, chunk_height>>; int() truncates, all operands >= 0
chunk_size(image_width, image_height, ratio, max_dim) ==
    LET wide == ratio[1] > ratio[2]
        w0 == IF wide THEN Min(max_dim, image_width)
                      ELSE (Min(max_dim, image_height) * ratio[1]) \div ratio[2]
        h0 == IF wide THEN (Min(max_dim, image_width) * ratio[2]) \div ratio[1]
                      ELSE Min(max_dim, image_height)
    IN  <<Min(w0, image_width), Min(h0, image_height)>>

\* lines 56-57: int(chunk_dim * (1 - overlap_percent))
step_size(chunk_dim, overlap_percent) ==
    (chunk_dim * (overlap_percent[2] - overlap_percent[1])) \div overlap_percent[2]

\* lines 60-61 (step # 0)
num_chunks_mut(image_dim, chunk_dim, step) ==
    Max(1, ((image_dim - chunk_dim) \div step) + 1)

num_chunks(image_dim, chunk_dim, step) ==
    Max(1, ((image_dim - chunk_dim) \div step) + 2)

\* lines 68, 72, 73: the clamped origin of column / row k
chunk_origin_mut(k, step, image_dim, chunk_dim) ==
    k * step

chunk_origin(k, step, image_dim, chunk_dim) ==
    Min(k * step, image_dim - chunk_dim)

\* the geometry computed by lines 42-61
geometry(image_width, image_height, target_aspect_ratio, overlap_percent, max_dim) ==
    LET ratio == effective_aspect_ratio(image_width, target_aspect_ratio)
        size  == chunk_size(image_width, image_height, ratio, max_dim)
    IN  [ image_width  |-> image_width,
          image_height |-> image_height,
          chunk_width  |-> size[1],
          chunk_height |-> size[2],
          step_x       |-> step_size(size[1], overlap_percent),
          step_y       |-> step_size(size[2], overlap_percent) ]

\* lines 60-61 raise ZeroDivisionError when a step is 0
raises_zero_division(g) == g.step_x = 0 \/ g.step_y = 0

\* lines 80-81: a box is appended unless the list holds it already
add_chunk_mut(chunks_so_far, box) ==
    IF box \in Range(chunks_so_far) THEN chunks_so_far ELSE <<box>> \o chunks_so_far

add_chunk(chunks_so_far, box) ==
    IF box \in Range(chunks_so_far) THEN chunks_so_far ELSE Append(chunks_so_far, box)

\* lines 70-85: the inner loop, from column x on (chunks_so_far: the list chunks)
RECURSIVE x_loop(_, _, _, _)
x_loop(x, y, g, chunks_so_far) ==
    IF x >= num_chunks(g.image_width, g.chunk_width, g.step_x)
    THEN chunks_so_far
    ELSE LET left   == chunk_origin(x, g.step_x, g.image_width, g.chunk_width)
             top    == chunk_origin(y, g.step_y, g.image_height, g.chunk_height)
             right  == left + g.chunk_width
             bottom == top + g.chunk_height
             box    == <<left, top, right, bottom>>
             kept   == add_chunk(chunks_so_far, box)
         IN  IF left + g.chunk_width >= g.image_width
             THEN kept
             ELSE IF Evaluated(kept) THEN x_loop(x + 1, y, g, kept) ELSE kept

\* lines 66-89: the outer loop, from row y on
RECURSIVE y_loop(_, _, _)
y_loop(y, g, chunks_so_far) ==
    IF y >= num_chunks(g.image_height, g.chunk_height, g.step_y)
    THEN chunks_so_far
    ELSE LET top_y == chunk_origin(y, g.step_y, g.image_height, g.chunk_height)
             row   == x_loop(0, y, g, chunks_so_far)
         IN  IF top_y + g.chunk_height >= g.image_height
             THEN row
             ELSE IF Evaluated(row) THEN y_loop(y + 1, g, row) ELSE row

\* the list returned (only when no step is 0)
calculate_optimal_chunks(image_width, image_height, target_aspect_ratio, overlap_percent, max_dim) ==
    y_loop(0, geometry(image_width, image_height, target_aspect_ratio,
                       overlap_percent, max_dim), <<>>)

(***************************************************************************)
(* chunk_image: the planning part                                          *)
(***************************************************************************)
\* line 123: width <= max_dim and height <= max_dim and 0.75 <= width/height <= 1.5
needs_no_chunking_mut(width, height, max_dim) ==
    /\ width < max_dim
    /\ height < max_dim
    /\ 3 * height <= 4 * width
    /\ 2 * width <= 3 * height

needs_no_chunking(width, height, max_dim) ==
    /\ width <= max_dim
    /\ height <= max_dim
    /\ 3 * height <= 4 * width
    /\ 2 * width <= 3 * height

\* lines 123-130: does planning raise (caught at line 160)
planning_raises(a) ==
    /\ ~needs_no_chunking(a.width, a.height, a.max_dim)
    /\ raises_zero_division(geometry(a.width, a.height, a.target_aspect_ratio,
                                     a.overlap_percent, a.max_dim))

\* lines 123-130: the boxes the image is split into
chunk_coords(a) ==
    IF needs_no_chunking(a.width, a.height, a.max_dim)
    THEN << <<0, 0, a.width, a.height>> >>
    ELSE calculate_optimal_chunks(a.width, a.height, a.target_aspect_ratio,
                                  a.overlap_percent, a.max_dim)

(***************************************************************************)
(* Strings.  A str is a sequence of pieces, each piece a TLA+ string: one  *)
(* character of a model response, a rendered number, a file name, or a     *)
(* literal piece of an f-string.  "" of Python is <<>>.                    *)
(***************************************************************************)
\* Optional[str] = None
NoneStr == <<"None">>

\* `if s:` / `if not s:` on an Optional[str]
Truthy(s) == s # NoneStr /\ s # <<>>

Whitespace == { " ", "\n", "\n\n" }

\* str.strip()
strip(s) ==
    LET inked == { k \in 1..Len(s) : s[k] \notin Whitespace }
    IN  IF inked = {}
        THEN <<>>
        ELSE SubSeq(s, CHOOSE k \in inked : \A j \in inked : k <= j,
                       CHOOSE k \in inked : \A j \in inked : k >= j)

\* len() of a str, in characters
RECURSIVE char_len(_)
char_len(s) == IF s = <<>> THEN 0 ELSE Len(Head(s)) + char_len(Tail(s))

\* text_summarizer.py line 149: re.sub(r'[^\w\s.,;:!?()\[\]{}\'"+-]', '', piece)
sanitize_piece(p) ==
    CASE p = "=" -> ""
      [] p = "#" -> ""
      [] p = " (Coordinates: left=" -> " (Coordinates: left"
      [] p = ", top=" -> ", top"
      [] p = ", right=" -> ", right"
      [] p = ", bottom=" -> ", bottom"
      [] OTHER -> p

sanitize(s) ==
    SelectSeq([k \in 1..Len(s) |-> sanitize_piece(s[k])], LAMBDA p : p # "")

(***************************************************************************)
(* Prompts (config/constants.py)                                           *)
(***************************************************************************)
\* prompt = None: the caller gave no prompt (None and "" are both falsy)
NoPrompt == ""

CustomPrompt == "Analyze this image with special attention to any text content"

CHUNK_ANALYSIS_PROMPT ==
    "Extract all visible text content from this image chunk. Provide a precise transcription in markdown format."

\* the name of the prompt summarize_text sends when role is None
DEFAULT_SUMMARIZATION_PROMPT == "MARKETING_MANAGER_PROMPT"

\* the name of the prompt of constants.py line 49
CHUNK_COMBINE_PROMPT == "CHUNK_COMBINE_PROMPT"

\* chunk_processor.py line 164: CHUNK_COMBINE_PROMPT.format(num_chunks=...); the
\* template has no replacement field. The value is bound to a local that no
\* statement reads.
combine_prompt(num_chunks_combined) == CHUNK_COMBINE_PROMPT

\* CHUNK_ANALYSIS_PROMPT.format(chunk_number=..., total_chunks=..., coordinates=...):
\* the template has no replacement field, so format returns it as it is
format_chunk_prompt(chunk_number, total_chunks, coordinates) == CHUNK_ANALYSIS_PROMPT

\* chunk_prompts[i][:100]
first_100(p) ==
    IF p = CHUNK_ANALYSIS_PROMPT
    THEN "Extract all visible text content from this image chunk. Provide a precise transcription in markdown "
    ELSE p

(***************************************************************************)
(* Files                                                                   *)
(***************************************************************************)
\* a path is <<directory, file name>>
image_path == <<"input", "image.png">>

\* f"chunk_{i:03d}.png"
chunk_file_name(i) ==
    "chunk_" \o (IF i < 10 THEN "00" ELSE IF i < 100 THEN "0" ELSE "") \o ToString(i) \o ".png"

\* line 70, tempfile.mkdtemp(prefix="image_analysis_chunks_"): a directory name that
\* no earlier call returned
mkdtemp == "image_analysis_chunks_" \o ToString(run)

\* os.path.join(temp_dir, f"chunk_{i:03d}.png")
chunk_path_of(i) == <<mkdtemp, chunk_file_name(i)>>

(***************************************************************************)
(* The Inference Gateway, as the orchestrator sees it: a call ends with    *)
(* the gateway's final outcome, after its own retries.                     *)
(***************************************************************************)
\* the response the vision model streams for an image: nothing, white space only,
\* or a transcription that names the image it was made from
vision_responses(path) ==
    { <<>>, <<" ">>, <<" ", "#", path[2], "=", "\n">> }

\* the final outcomes of analyze_image_with_ollama's retry loop
vision_outcomes(path) ==
    { [failed |-> TRUE, full_response |-> <<>>] }
    \cup { [failed |-> FALSE, full_response |-> r] : r \in vision_responses(path) }

\* image_analyzer.py lines 80-92, 153-160, 171, 175-181: the value returned
analyze_image_with_ollama(outcome) ==
    IF outcome.failed THEN NoneStr
    ELSE IF strip(outcome.full_response) # <<>> THEN outcome.full_response
    ELSE <<>>

\* the final outcomes of summarize_text's retry loop
summary_outcomes ==
    { [failed |-> TRUE, full_response |-> <<>>],
      [failed |-> FALSE, full_response |-> <<>>],
      [failed |-> FALSE, full_response |-> <<"#", "S", "=">>] }

\* text_summarizer.py lines 144-146
too_short(text) == text = <<>> \/ text = NoneStr \/ char_len(strip(text)) < 10

\* text_summarizer.py lines 144-146, 217-224, 230-236: the value returned
summarize_text(text, outcome) ==
    IF too_short(text) THEN NoneStr
    ELSE IF outcome.failed \/ outcome.full_response = <<>> THEN NoneStr
    ELSE outcome.full_response

\* a gateway call, as submitted by the orchestrator
vision_call(path, p) ==
    [ fn |-> "analyze_image_with_ollama", path |-> path, prompt |-> p, text |-> <<>> ]

\* summarize_text(combined_text, progress_style): role is None; the text sent to
\* the model is the sanitized one (line 149), after the role's prompt (line 193)
summary_call(text) ==
    [ fn |-> "summarize_text", path |-> <<"", "">>,
      prompt |-> DEFAULT_SUMMARIZATION_PROMPT, text |-> text ]

\* two calls are the same request: same function, same tile, same prompt, same text
same_request(c, d) ==
    /\ c.fn = d.fn
    /\ c.path[2] = d.path[2]
    /\ c.prompt = d.prompt
    /\ c.text = d.text

\* the outcomes a call can have: any of them in the first run; in the second run
\* the one the same request had in the first, when the first run made it
stubbed(call, outcomes) ==
    LET seen == { k \in 1..Len(first_run.replies) :
                    same_request(first_run.calls[first_run.replies[k].call], call) }
    IN  IF run = 1 \/ seen = {}
        THEN outcomes
        ELSE { first_run.replies[k].outcome : k \in seen }

(***************************************************************************)
(* chunk_image (image_chunker.py lines 93-162)                             *)
(***************************************************************************)
\* image_utils.is_image_blank on a tile; a tile image is named by the position of
\* its box in the plan (0: the copy of the whole image, line 125)
is_image_blank_mut(image) == FALSE

\* image_utils.py lines 18-75; lines 71-75: when the analysis raises, False
is_image_blank(image) == image \notin fault.unanalysable /\ image \in blank_boxes

\* lines 116-119, 128, 160-162: Image.open or the planning raises
chunk_image_raises == ~readable \/ planning_raises(args)

\* lines 134-158: the crops that are not blank, in the order of the plan
crop_and_filter(chunk_coords_list) ==
    SelectSeq([k \in 1..Len(chunk_coords_list) |->
                  [image |-> k, coords |-> chunk_coords_list[k]]],
              LAMBDA c : ~is_image_blank(c.image))

\* the list returned: (image, coords) pairs
chunk_image ==
    IF chunk_image_raises
    THEN <<>>
    ELSE IF needs_no_chunking(args.width, args.height, args.max_dim)
    THEN << [image |-> 0, coords |-> <<0, 0, args.width, args.height>>] >>
    ELSE crop_and_filter(chunk_coords(args))

(***************************************************************************)
(* analyze_image_in_chunks (chunk_processor.py lines 18-187)               *)
(***************************************************************************)
\* the images given to the orchestrator, <<width, height>>: one that needs no
\* chunking, plans of 1 to 5 boxes, and one whose planning raises
OrchImages ==
    { <<600, 600>>, <<1000, 300>>, <<1500, 800>>, <<2500, 700>>, <<1500, 1500>>,
      <<5000, 700>>, <<1, 5>> }

\* chunk_processor.py lines 21-23: the default parameters
OrchArgs ==
    { a \in { [ width |-> d[1], height |-> d[2], max_dim |-> 1200,
                target_aspect_ratio |-> None, overlap_percent |-> <<1, 5>> ]
              : d \in OrchImages } :
        planning_raises(a) \/ Len(chunk_coords(a)) <= MaxTiles }

\* the number of boxes in the plan of the image
num_boxes(a) == IF planning_raises(a) THEN 0 ELSE Len(chunk_coords(a))

\* the faults of one call: save is the tile (0: none) whose chunk.save raises,
\* reopen the tiles whose staged file cannot be opened again, unanalysable the
\* tiles on which the blankness analysis raises
NoFault == [ save |-> 0, reopen |-> {}, unanalysable |-> {} ]

\* at most one kind of fault in a call, on one tile or (reopening) on all of them
Faults(boxes) ==
    { NoFault }
    \cup { [ NoFault EXCEPT !.save = k ] : k \in boxes }
    \cup { [ NoFault EXCEPT !.reopen = {k} ] : k \in boxes }
    \cup { [ NoFault EXCEPT !.reopen = boxes ] }
    \cup { [ NoFault EXCEPT !.unanalysable = {k} ] : k \in boxes }

\* the state before line 43
LocalsInit ==
    /\ chunks = <<>>
    /\ chunk_paths = <<>>
    /\ valid_chunk_paths = <<>>
    /\ valid_chunks_idx = <<>>
    /\ idx = 0
    /\ chunk_prompts = <<>>
    /\ chunk_analyses = <<>>
    /\ combined_text = <<>>
    /\ result = <<NoneStr, <<>>>>
    /\ raised = "none"
    /\ temp_dir = "none"
    /\ temp_files = {}
    /\ calls = <<>>
    /\ replies = <<>>
    /\ errors = <<>>

\* nothing was called before
NoFirstRun == [ calls |-> <<>>, replies |-> <<>>, result |-> <<NoneStr, <<>>>> ]

\* chunk_image, is_image_blank and the gateway functions are not checked alone
ChunkIdle ==
    /\ chunk_pc = "idle"
    /\ save_chunks = FALSE
    /\ output_files = <<>>

BlankIdle ==
    /\ blank_pc = "idle"
    /\ region = [ mode |-> "RGB", width |-> 0, height |-> 0, pixels |-> <<>>, palette |-> <<>> ]
    /\ threshold = 10
    /\ is_blank = FALSE

GatewayIdle ==
    /\ gw_pc = "idle"
    /\ gw_call = [ fn |-> "none", input |-> <<>> ]
    /\ attempts = 0
    /\ slept = <<>>
    /\ attempt_outcomes = <<>>
    /\ gw_result = NoneStr

\* no orchestrator runs (SpecPlan)
OrchIdle ==
    /\ readable = FALSE
    /\ blank_boxes = {}
    /\ prompt = NoPrompt
    /\ fault = NoFault
    /\ pc = "idle"
    /\ run = 1
    /\ first_run = NoFirstRun
    /\ LocalsInit
    /\ ChunkIdle
    /\ BlankIdle
    /\ GatewayIdle

Init ==
    /\ args \in OrchArgs
    /\ plan_pc = "idle"
    /\ plan_out = <<>>
    /\ readable \in BOOLEAN
    /\ blank_boxes \in (IF readable THEN SUBSET (1..num_boxes(args)) ELSE { {} })
    /\ prompt \in { NoPrompt, CustomPrompt }
    /\ fault \in (IF readable /\ num_boxes(args) >= 2
                  THEN Faults((1..num_boxes(args)) \ blank_boxes)
                  ELSE { NoFault })
    /\ pc = "start"
    /\ run = 1
    /\ first_run = NoFirstRun
    /\ LocalsInit
    /\ ChunkIdle
    /\ BlankIdle
    /\ GatewayIdle

\* lines 178-182 (finally): the files left in temp_dir
files_after_cleanup(files, paths) == files \ Range(paths)

\* lines 184-187 (finally): os.rmdir removes the directory when it is empty; when
\* it is not, the error is swallowed and the directory stays
rmdir(files) == IF files = {} THEN "removed" ELSE "created"

\* lines 93-102: the reopening of a staged tile, or its analysis, raises
validation_raises(image) == image \in fault.reopen

\* lines 89-102: the indices i of the chunks whose staged file is not blank
validated_idx(cs) ==
    SelectSeq([k \in 1..Len(cs) |-> k - 1],
              LAMBDA i : /\ ~validation_raises(cs[i + 1].image)
                         /\ ~is_image_blank(cs[i + 1].image))

\* line 101: one logger.error for every chunk whose validation raises
validation_errors(cs) ==
    [k \in 1..Cardinality({ j \in 1..Len(cs) : validation_raises(cs[j].image) })
        |-> "Error validating chunk"]

\* lines 61, 108, 142: the value of `return None, []`
abort_return(line) == <<NoneStr, <<>>>>

\* lines 43-70: chunk_image, the early returns, and the temporary directory
Extract ==
    /\ pc = "start"
    /\ LET cs == chunk_image
       IN  /\ chunks' = cs
           /\ IF cs = <<>>
              THEN \* lines 59-61
                   /\ errors' = errors
                          \o (IF chunk_image_raises THEN <<"Error chunking image">> ELSE <<>>)
                          \o <<"Failed to create image chunks">>
                   /\ result' = abort_return(61)
                   /\ pc' = "done"
                   /\ UNCHANGED <<temp_dir, calls>>
              ELSE IF Len(cs) = 1
              THEN \* lines 64-66: the call of line 66 is submitted
                   /\ calls' = Append(calls, vision_call(image_path, prompt))
                   /\ pc' = "fast_call"
                   /\ UNCHANGED <<temp_dir, errors, result>>
              ELSE \* line 70
                   /\ temp_dir' = "created"
                   /\ pc' = "staging"
                   /\ UNCHANGED <<calls, errors, result>>
    /\ UNCHANGED <<plan_vars, input_vars, run_vars, unit_vars, chunk_paths, valid_chunk_paths,
                   valid_chunks_idx, idx, chunk_prompts, chunk_analyses, combined_text,
                   raised, temp_files, replies>>

\* line 67: the whole-image call returns, and so does the orchestrator
ResolveFast ==
    /\ pc = "fast_call"
    /\ \E o \in stubbed(calls[Len(calls)], vision_outcomes(image_path)) :
          LET analysis == analyze_image_with_ollama(o)
          IN  /\ replies' = Append(replies, [call |-> Len(calls), outcome |-> o,
                                             value |-> analysis])
              /\ result' = <<analysis, IF Truthy(analysis) THEN <<analysis>> ELSE <<>>>>
    /\ pc' = "done"
    /\ UNCHANGED <<plan_vars, input_vars, run_vars, unit_vars, chunks, chunk_paths, valid_chunk_paths,
                   valid_chunks_idx, idx, chunk_prompts, chunk_analyses, combined_text,
                   raised, temp_dir, temp_files, calls, errors>>

\* lines 75-78: one iteration of the staging loop; when chunk.save raises, PIL
\* removes the file it created, the finally block runs and the exception leaves
\* the function
StageTile ==
    /\ pc = "staging"
    /\ Len(chunk_paths) < Len(chunks)
    /\ LET i          == Len(chunk_paths)
           chunk_path == chunk_path_of(i)
       IN  IF chunks[i + 1].image = fault.save
           THEN /\ raised' = "OSError"
                /\ temp_files' = files_after_cleanup(temp_files, chunk_paths)
                /\ temp_dir' = rmdir(temp_files')
                /\ pc' = "raised"
                /\ UNCHANGED chunk_paths
           ELSE /\ temp_files' = temp_files \cup {chunk_path}
                /\ chunk_paths' = Append(chunk_paths, chunk_path)
                /\ UNCHANGED <<raised, temp_dir, pc>>
    /\ UNCHANGED <<plan_vars, input_vars, run_vars, unit_vars, chunks, valid_chunk_paths,
                   valid_chunks_idx, idx, chunk_prompts, chunk_analyses, combined_text,
                   result, calls, replies, errors>>

\* lines 80-108: the validation of the staged tiles
Validate ==
    /\ pc = "staging"
    /\ Len(chunk_paths) = Len(chunks)
    /\ LET valid == validated_idx(chunks)
       IN  /\ valid_chunks_idx' = valid
           /\ valid_chunk_paths' = [k \in 1..Len(valid) |-> chunk_paths[valid[k] + 1]]
           /\ IF valid = <<>>
              THEN \* lines 106-108, then the finally block
                   /\ errors' = errors \o validation_errors(chunks)
                                       \o <<"No valid chunks found for analysis">>
                   /\ result' = abort_return(108)
                   /\ temp_files' = files_after_cleanup(temp_files, chunk_paths)
                   /\ temp_dir' = rmdir(temp_files')
                   /\ pc' = "done"
              ELSE /\ errors' = errors \o validation_errors(chunks)
                   /\ pc' = "tile_loop"
                   /\ UNCHANGED <<result, temp_dir, temp_files>>
    /\ UNCHANGED <<plan_vars, input_vars, run_vars, unit_vars, chunks, chunk_paths, idx,
                   chunk_prompts, chunk_analyses, combined_text, raised, calls, replies>>

\* lines 119-126: the prompt of chunk i (0-based)
chunk_prompt_of(i) ==
    IF prompt # NoPrompt
    THEN prompt
    ELSE format_chunk_prompt(i + 1, Len(chunk_paths), chunks[i + 1].coords)

\* lines 111-131: one iteration of the tile loop, up to the submission of its call
SubmitTile ==
    /\ pc = "tile_loop"
    /\ idx < Len(valid_chunks_idx)
    /\ LET i          == valid_chunks_idx[idx + 1]
           chunk_path == valid_chunk_paths[idx + 1]
       IN  /\ chunk_prompts' = Append(chunk_prompts, chunk_prompt_of(i))
           /\ calls' = Append(calls, vision_call(chunk_path, chunk_prompt_of(i)))
    /\ pc' = "tile_call"
    /\ UNCHANGED <<plan_vars, input_vars, run_vars, unit_vars, chunks, chunk_paths, valid_chunk_paths,
                   valid_chunks_idx, idx, chunk_analyses, combined_text, result, raised,
                   temp_dir, temp_files, replies, errors>>

\* lines 111, 132-135: the loop goes on to the next valid chunk whatever the analysis
next_idx_mut(analysis) == IF Truthy(analysis) THEN idx + 1 ELSE Len(valid_chunks_idx)

next_idx_skip(analysis) == idx + 2

next_idx(analysis) == idx + 1

\* lines 132-133: a truthy analysis is appended to chunk_analyses
record_analysis_mut(analyses, analysis) ==
    IF Truthy(analysis) THEN <<analysis>> \o analyses ELSE analyses

record_analysis(analyses, analysis) ==
    IF Truthy(analysis) THEN Append(analyses, analysis) ELSE analyses

\* lines 131-135: the call of the tile returns
ResolveTile ==
    /\ pc = "tile_call"
    /\ \E o \in stubbed(calls[Len(calls)], vision_outcomes(valid_chunk_paths[idx + 1])) :
          LET analysis == analyze_image_with_ollama(o)
          IN  /\ replies' = Append(replies, [call |-> Len(calls), outcome |-> o,
                                             value |-> analysis])
              /\ chunk_analyses' = record_analysis(chunk_analyses, analysis)
              /\ idx' = next_idx(analysis)
    /\ pc' = "tile_loop"
    /\ UNCHANGED <<plan_vars, input_vars, run_vars, unit_vars, chunks, chunk_paths, valid_chunk_paths,
                   valid_chunks_idx, chunk_prompts, combined_text, result, raised,
                   temp_dir, temp_files, calls, errors>>

\* lines 157-161: what the loop adds for chunk_analyses[i] (i 0-based)
chunk_entry_mut(i, analysis) ==
    << "--- CHUNK ", ToString(i + 1), " in ", chunk_paths[i + 1][1], " ---\n" >>
    \o analysis \o << "\n\n" >>

chunk_entry(i, analysis) ==
    LET coords == chunks[i + 1].coords
    IN  << "--- CHUNK ", ToString(i + 1),
           " (Coordinates: left=", ToString(coords[1]), ", top=", ToString(coords[2]),
           ", right=", ToString(coords[3]), ", bottom=", ToString(coords[4]), ") ---\n",
           "Prompt: ", first_100(chunk_prompts[i + 1]), "...\n" >>
        \o analysis \o << "\n\n" >>

\* lines 154-161: the entries of the first n analyses
RECURSIVE chunk_entries(_, _)
chunk_entries(analyses, n) ==
    IF n = 0
    THEN <<>>
    ELSE chunk_entries(analyses, n - 1)
         \o (IF Truthy(analyses[n]) THEN chunk_entry(n - 1, analyses[n]) ELSE <<>>)

\* lines 152-161
build_combined_text(analyses, final_chunk_analyses) ==
    << "Analysis of ", ToString(Len(final_chunk_analyses)), " chunks from image: ",
       image_path[2], "\n\n" >>
    \o chunk_entries(analyses, Len(analyses))

\* lines 140-146: what follows the tile loop
assembly_case_no_abort(final_chunk_analyses) ==
    IF Len(final_chunk_analyses) = 1 THEN "single" ELSE "combine"

assembly_case_no_single(final_chunk_analyses) ==
    IF final_chunk_analyses = <<>> THEN "abort" ELSE "combine"

assembly_case(final_chunk_analyses) ==
    IF final_chunk_analyses = <<>> THEN "abort"
    ELSE IF Len(final_chunk_analyses) = 1 THEN "single"
    ELSE "combine"

\* lines 137-167: after the loop, up to the submission of the combination call
Assemble ==
    /\ pc = "tile_loop"
    /\ idx >= Len(valid_chunks_idx)
    /\ LET final_chunk_analyses == SelectSeq(chunk_analyses, Truthy)
           todo == assembly_case(final_chunk_analyses)
       IN  IF todo = "abort"
           THEN \* lines 140-142, then the finally block
                /\ errors' = Append(errors, "All chunk analyses failed or were blank")
                /\ result' = abort_return(142)
                /\ temp_files' = files_after_cleanup(temp_files, chunk_paths)
                /\ temp_dir' = rmdir(temp_files')
                /\ pc' = "done"
                /\ UNCHANGED <<combined_text, calls>>
           ELSE IF todo = "single"
           THEN \* lines 145-146, then the finally block
                /\ result' = <<final_chunk_analyses[1], final_chunk_analyses>>
                /\ temp_files' = files_after_cleanup(temp_files, chunk_paths)
                /\ temp_dir' = rmdir(temp_files')
                /\ pc' = "done"
                /\ UNCHANGED <<combined_text, calls, errors>>
           ELSE \* lines 152-167: the call of line 167 is submitted
                /\ combined_text' = build_combined_text(chunk_analyses, final_chunk_analyses)
                /\ calls' = Append(calls, summary_call(combined_text'))
                /\ pc' = "final_call"
                /\ UNCHANGED <<result, temp_dir, temp_files, errors>>
    /\ UNCHANGED <<plan_vars, input_vars, run_vars, unit_vars, chunks, chunk_paths, valid_chunk_paths,
                   valid_chunks_idx, idx, chunk_prompts, chunk_analyses, raised, replies>>

\* lines 169-174: the text returned after the combination call
final_text_mut(combined_analysis, text) ==
    IF ~Truthy(combined_analysis) THEN sanitize(text) ELSE combined_analysis

final_text(combined_analysis, text) ==
    IF ~Truthy(combined_analysis) THEN text ELSE combined_analysis

\* lines 167-174, then the finally block: the combination call returns
ResolveFinal ==
    /\ pc = "final_call"
    /\ \E o \in stubbed(calls[Len(calls)], summary_outcomes) :
          LET combined_analysis == summarize_text(combined_text, o)
          IN  /\ replies' = Append(replies, [call |-> Len(calls), outcome |-> o,
                                             value |-> combined_analysis])
              /\ result' = <<final_text(combined_analysis, combined_text),
                             SelectSeq(chunk_analyses, Truthy)>>
    /\ temp_files' = files_after_cleanup(temp_files, chunk_paths)
    /\ temp_dir' = rmdir(temp_files')
    /\ pc' = "done"
    /\ UNCHANGED <<plan_vars, input_vars, run_vars, unit_vars, chunks, chunk_paths, valid_chunk_paths,
                   valid_chunks_idx, idx, chunk_prompts, chunk_analyses, combined_text,
                   raised, calls, errors>>

\* where the function is when a KeyboardInterrupt arrives: outside the try
\* statement (before line 70), between line 70 and the try of line 73, inside
\* chunk.save before or after it created the file, elsewhere inside the try
interrupt_points ==
    IF pc \in { "start", "fast_call" } THEN { "outside" }
    ELSE IF pc = "staging"
    THEN (IF chunk_paths = <<>> THEN { "before_try" } ELSE {})
         \cup (IF Len(chunk_paths) < Len(chunks)
               THEN { "in_save", "in_save_file_created" }
               ELSE { "in_try" })
    ELSE { "in_try" }

\* a KeyboardInterrupt: no except clause catches it; inside the try statement the
\* finally block (lines 176-187) runs before it leaves the function
Interrupt ==
    /\ pc \in { "start", "fast_call", "staging", "tile_loop", "tile_call", "final_call" }
    /\ \E point \in interrupt_points :
          IF point \in { "outside", "before_try" }
          THEN UNCHANGED <<temp_files, temp_dir>>
          ELSE LET files == IF point = "in_save_file_created"
                            THEN temp_files \cup { chunk_path_of(Len(chunk_paths)) }
                            ELSE temp_files
               IN  /\ temp_files' = files_after_cleanup(files, chunk_paths)
                   /\ temp_dir' = rmdir(temp_files')
    /\ raised' = "KeyboardInterrupt"
    /\ pc' = "raised"
    /\ UNCHANGED <<plan_vars, input_vars, run_vars, unit_vars, chunks, chunk_paths, valid_chunk_paths,
                   valid_chunks_idx, idx, chunk_prompts, chunk_analyses, combined_text,
                   result, calls, replies, errors>>

Next ==
    \/ Extract
    \/ ResolveFast
    \/ StageTile
    \/ Validate
    \/ SubmitTile
    \/ ResolveTile
    \/ Assemble
    \/ ResolveFinal
    \/ Interrupt

Spec == Init /\ [][Next]_vars

(***************************************************************************)
(* The orchestrator called twice on the same image, with a gateway that    *)
(* answers a request of the second call as it answered it in the first.    *)
(***************************************************************************)
\* the images of this specification have at most MaxTilesTwice boxes
InitTwice ==
    /\ Init
    /\ num_boxes(args) <= MaxTilesTwice
    /\ fault.save = 0
    /\ fault.reopen = {}

\* the first call has returned; the function is called again
Rerun ==
    /\ pc = "done"
    /\ run = 1
    /\ run' = 2
    /\ first_run' = [ calls |-> calls, replies |-> replies, result |-> result ]
    /\ pc' = "start"
    /\ chunks' = <<>>
    /\ chunk_paths' = <<>>
    /\ valid_chunk_paths' = <<>>
    /\ valid_chunks_idx' = <<>>
    /\ idx' = 0
    /\ chunk_prompts' = <<>>
    /\ chunk_analyses' = <<>>
    /\ combined_text' = <<>>
    /\ result' = <<NoneStr, <<>>>>
    /\ raised' = "none"
    /\ temp_dir' = "none"
    /\ temp_files' = {}
    /\ calls' = <<>>
    /\ replies' = <<>>
    /\ errors' = <<>>
    /\ UNCHANGED <<plan_vars, input_vars, unit_vars>>

NextTwice ==
    \/ Extract
    \/ ResolveFast
    \/ StageTile
    \/ Validate
    \/ SubmitTile
    \/ ResolveTile
    \/ Assemble
    \/ ResolveFinal
    \/ Rerun

SpecTwice == InitTwice /\ [][NextTwice]_vars

(***************************************************************************)
(* chunk_image alone, with its parameter save_chunks.                      *)
(***************************************************************************)
\* image_chunker.py line 150: the file of the crop of plan position i (0-based),
\* f"chunk_{i:03d}.png" with the i of enumerate(chunk_coords)
saved_chunk_name(i, emitted) == chunk_file_name(i)

\* lines 134-155: the files written for the first n boxes of the plan, in order
RECURSIVE saved_chunk_names(_, _)
saved_chunk_names(chunk_coords_list, n) ==
    IF n = 0
    THEN <<>>
    ELSE LET before == saved_chunk_names(chunk_coords_list, n - 1)
         IN  IF is_image_blank(n)
             THEN before
             ELSE Append(before, saved_chunk_name(n - 1, Len(before)))

\* lines 116-162: the files chunk_image writes to output_dir; none when it raises
\* before the loop, none when the image needs no chunking (line 125 returns)
chunk_image_saves ==
    IF ~save_chunks \/ chunk_image_raises THEN <<>>
    ELSE IF needs_no_chunking(args.width, args.height, args.max_dim) THEN <<>>
    ELSE saved_chunk_names(chunk_coords(args), Len(chunk_coords(args)))

InitChunk ==
    /\ args \in OrchArgs
    /\ plan_pc = "idle"
    /\ plan_out = <<>>
    /\ readable \in BOOLEAN
    /\ blank_boxes \in (IF readable THEN SUBSET (1..num_boxes(args)) ELSE { {} })
    /\ prompt = NoPrompt
    /\ fault \in { NoFault } \cup { [ NoFault EXCEPT !.unanalysable = {k} ] :
                                     k \in (1..num_boxes(args)) \ blank_boxes }
    /\ pc = "idle"
    /\ run = 1
    /\ first_run = NoFirstRun
    /\ LocalsInit
    /\ chunk_pc = "call"
    /\ save_chunks \in BOOLEAN
    /\ output_files = <<>>
    /\ BlankIdle
    /\ GatewayIdle

\* lines 116-158: chunk_image returns its list
ChunkImageReturn ==
    /\ chunk_pc = "call"
    /\ ~chunk_image_raises
    /\ chunks' = chunk_image
    /\ output_files' = chunk_image_saves
    /\ chunk_pc' = "returned"
    /\ UNCHANGED <<plan_vars, input_vars, run_vars, env_vars, blank_vars, gateway_vars,
                   save_chunks, pc, chunk_paths, valid_chunk_paths, valid_chunks_idx, idx,
                   chunk_prompts, chunk_analyses, combined_text, result, raised>>

\* lines 160-162: Image.open or the planning raised; chunk_image logs and returns []
ChunkImageFail ==
    /\ chunk_pc = "call"
    /\ chunk_image_raises
    /\ chunks' = chunk_image
    /\ errors' = Append(errors, "Error chunking image")
    /\ chunk_pc' = "returned"
    /\ UNCHANGED <<plan_vars, input_vars, run_vars, blank_vars, gateway_vars,
                   save_chunks, output_files, pc, chunk_paths, valid_chunk_paths,
                   valid_chunks_idx, idx, chunk_prompts, chunk_analyses, combined_text,
                   result, raised, temp_dir, temp_files, calls, replies>>

NextChunk == ChunkImageReturn \/ ChunkImageFail

SpecChunk == InitChunk /\ [][NextChunk]_vars

(***************************************************************************)
(* is_image_blank (utils/image_utils.py) on a region of pixels.  A region  *)
(* has a mode: "RGB" (a pixel is <<r, g, b>>), "L" (a pixel is its         *)
(* luminance) or "P" (a pixel is an index into the palette of the image,   *)
(* as in a GIF or an 8-bit PNG).  The pixels are listed row by row.        *)
(***************************************************************************)
\* line 26, image.convert("L") on an RGB pixel: L = R * 299/1000 + G * 587/1000 +
\* B * 114/1000, in the fixed-point arithmetic of PIL
rgb_to_l(colour) ==
    (colour[1] * 19595 + colour[2] * 38470 + colour[3] * 7471 + 32768) \div 65536

\* line 26: the luminance of a pixel of the image
luminance(image, pixel) ==
    IF image.mode = "RGB" THEN rgb_to_l(pixel)
    ELSE IF image.mode = "P" THEN rgb_to_l(image.palette[pixel])
    ELSE pixel

\* line 26: gray_img = image.convert("L")
gray_img(image) == [k \in 1..Len(image.pixels) |-> luminance(image, image.pixels[k])]

\* lines 27, 35: max(hist), the number of pixels of the most common gray value
max_count(gray) ==
    LET count(v) == Cardinality({ k \in 1..Len(gray) : gray[k] = v })
    IN  CHOOSE n \in { count(v) : v \in Range(gray) } :
            \A v \in Range(gray) : count(v) <= n

\* line 43, image.getextrema(): one <<min, max>> for every band of the image as it
\* is stored; the only band of a "P" image holds the palette indices
getextrema(image) ==
    LET band_extrema(values) ==
            << CHOOSE v \in values : \A u \in values : v <= u,
               CHOOSE v \in values : \A u \in values : v >= u >>
    IN  IF image.mode = "RGB"
        THEN [b \in 1..3 |-> band_extrema({ image.pixels[k][b] : k \in 1..Len(image.pixels) })]
        ELSE << band_extrema(Range(image.pixels)) >>

\* lines 49-66 alone, a band counting as varied when its range reaches threshold
is_image_blank_strict(image, threshold_given) ==
    IF image.width * image.height = 0 THEN TRUE
    ELSE \A b \in 1..Len(getextrema(image)) :
            ~(getextrema(image)[b][2] - getextrema(image)[b][1] >= threshold_given)

\* lines 18-69: the value returned for an image of mode RGB, L or P
is_image_blank_pixels(image, threshold_given) ==
    LET gray         == gray_img(image)
        total_pixels == image.width * image.height
        extrema      == getextrema(image)
    IN  IF total_pixels = 0 THEN TRUE                                  \* lines 31-32
        ELSE IF max_count(gray) * 100 > 95 * total_pixels THEN TRUE    \* lines 36-40
        ELSE \A b \in 1..Len(extrema) :                                \* lines 50-66
                ~(extrema[b][2] - extrema[b][1] > threshold_given)

\* the colours, the patterns and the thresholds of the regions checked
Colours ==
    { <<0, 0, 0>>, <<255, 255, 255>>, <<10, 10, 10>>, <<21, 21, 21>>, <<255, 0, 0>>,
      <<0, 0, 40>> }

Patterns == { "uniform", "checkerboard", "speck" }

Thresholds == { 0, 10, 100 }

\* the colour of pixel (x, y) of a pattern of the colours a and b
pattern_colour(pattern, x, y, a, b) ==
    IF pattern = "uniform" THEN a
    ELSE IF pattern = "checkerboard" THEN (IF (x + y) % 2 = 0 THEN a ELSE b)
    ELSE (IF x = 0 /\ y = 0 THEN b ELSE a)

\* the palettes of a "P" image of the colours a and b: neighbouring entries, or the
\* first and the last entry
Palettes(a, b) == { (0 :> a) @@ (1 :> b), (0 :> a) @@ (255 :> b) }

\* the index of a colour in a palette
palette_index(palette, colour) ==
    CHOOSE i \in DOMAIN palette :
        /\ palette[i] = colour
        /\ \A j \in DOMAIN palette : palette[j] = colour => i <= j

\* the image of a pattern in a mode
image_of(mode, palette, pattern, width, height, a, b) ==
    [ mode    |-> mode,
      width   |-> width,
      height  |-> height,
      palette |-> palette,
      pixels  |-> [k \in 1..(width * height) |->
                     LET colour == pattern_colour(pattern, (k - 1) % width,
                                                  (k - 1) \div width, a, b)
                     IN  IF mode = "RGB" THEN colour
                         ELSE IF mode = "L" THEN rgb_to_l(colour)
                         ELSE palette_index(palette, colour)] ]

Regions ==
    { image_of(m[1], m[2], pattern, w, h, a, b) :
        m \in { <<"RGB", <<>>>>, <<"L", <<>>>> }, pattern \in Patterns,
        w \in 1..MaxSide, h \in 1..MaxSide, a \in Colours, b \in Colours }
    \cup
    UNION { { image_of("P", palette, pattern, w, h, a, b) : palette \in Palettes(a, b) } :
              pattern \in Patterns, w \in 1..MaxSide, h \in 1..MaxSide,
              a \in Colours, b \in Colours }

InitBlank ==
    /\ args \in { a \in OrchArgs : a.width = 600 /\ a.height = 600 }
    /\ plan_pc = "idle"
    /\ plan_out = <<>>
    /\ readable = FALSE
    /\ blank_boxes = {}
    /\ prompt = NoPrompt
    /\ fault = NoFault
    /\ pc = "idle"
    /\ run = 1
    /\ first_run = NoFirstRun
    /\ LocalsInit
    /\ ChunkIdle
    /\ GatewayIdle
    /\ blank_pc = "call"
    /\ region \in Regions
    /\ threshold \in Thresholds
    /\ is_blank = FALSE

\* is_image_blank(image, threshold) returns
IsImageBlankReturn ==
    /\ blank_pc = "call"
    /\ is_blank' = is_image_blank_pixels(region, threshold)
    /\ blank_pc' = "returned"
    /\ UNCHANGED <<plan_vars, input_vars, local_vars, env_vars, run_vars, chunk_vars,
                   gateway_vars, region, threshold>>

NextBlank == IsImageBlankReturn

SpecBlank == InitBlank /\ [][NextBlank]_vars

(***************************************************************************)
(* The Inference Gateway from inside: the retry loops of                   *)
(* analyze_image_with_ollama (core/image_analyzer.py) and summarize_text   *)
(* (core/text_summarizer.py).  A remote attempt returns what the model     *)
(* streamed or raises; attempt_outcomes lists the attempts made so far and *)
(* slept the durations given to time.sleep.                                *)
(***************************************************************************)
\* config/constants.py line 10
MAX_RETRIES == 3

\* config/constants.py line 9 (seconds)
REQUEST_COOLDOWN == 1

\* a wait that does not grow with the failures
backoff_fixed(failed_attempts) == REQUEST_COOLDOWN

\* image_analyzer.py line 106, text_summarizer.py line 165: the argument of
\* time.sleep before the attempt that follows failed_attempts failed ones
backoff(failed_attempts) == REQUEST_COOLDOWN * (2 ^ failed_attempts)

\* image_analyzer.py line 169: attempts_made is the value of attempts in the except
\* clause, after the attempts += 1 of line 109
ggml_gives_up(attempts_made) == attempts_made >= 1

\* the images and the texts the gateway is called on
gateway_images ==
    { <<"dir", "chunk_000.png">>, <<"dir", "chunk_001.png">>, <<"dir", "chunk_002.png">>,
      <<"dir", "missing.png">> }

gateway_texts ==
    { <<>>, NoneStr, <<"too short">>, <<"Section 1", "\n", "some text">>,
      <<"#", "Section 2", "=", "other text">> }

GatewayCalls ==
    { [ fn |-> "analyze_image_with_ollama", input |-> p ] : p \in gateway_images }
    \cup { [ fn |-> "summarize_text", input |-> t ] : t \in gateway_texts }

\* image_analyzer.py lines 80-92: validate_image fails or the path does not exist
image_rejected(path) == path[2] = "missing.png"

\* what one remote attempt can do: stream a response, or raise an exception whose
\* message contains GGML_ASSERT or does not
attempt_outcomes_of(call) ==
    IF call.fn = "analyze_image_with_ollama"
    THEN { [ raised |-> "none", full_response |-> r ] : r \in vision_responses(call.input) }
         \cup { [ raised |-> e, full_response |-> <<>> ] : e \in { "Exception", "GGML_ASSERT" } }
    ELSE { [ raised |-> "none", full_response |-> r ] :
             r \in { <<>>, <<" ">>, <<"#", "S", "=">> } }
         \cup { [ raised |-> "Exception", full_response |-> <<>> ] }

\* image_analyzer.py lines 153-173, text_summarizer.py lines 217-228: whether the
\* attempt ends the call, and the value returned when it does
attempt_returns(call, outcome, attempts_made) ==
    IF call.fn = "analyze_image_with_ollama"
    THEN \/ outcome.raised = "none"
         \/ outcome.raised = "GGML_ASSERT" /\ ggml_gives_up(attempts_made)
    ELSE outcome.raised = "none" /\ outcome.full_response # <<>>

attempt_value(call, outcome) ==
    IF call.fn = "analyze_image_with_ollama"
    THEN (IF outcome.raised = "none" /\ strip(outcome.full_response) # <<>>
          THEN outcome.full_response
          ELSE <<>>)
    ELSE outcome.full_response

InitGateway ==
    /\ args \in { a \in OrchArgs : a.width = 600 /\ a.height = 600 }
    /\ plan_pc = "idle"
    /\ plan_out = <<>>
    /\ readable = FALSE
    /\ blank_boxes = {}
    /\ prompt = NoPrompt
    /\ fault = NoFault
    /\ pc = "idle"
    /\ run = 1
    /\ first_run = NoFirstRun
    /\ LocalsInit
    /\ ChunkIdle
    /\ BlankIdle
    /\ gw_pc = "call"
    /\ gw_call \in GatewayCalls
    /\ attempts = 0
    /\ slept = <<>>
    /\ attempt_outcomes = <<>>
    /\ gw_result = NoneStr

gateway_unchanged == UNCHANGED <<plan_vars, input_vars, local_vars, env_vars, run_vars, chunk_vars, blank_vars>>

\* image_analyzer.py lines 80-92, text_summarizer.py lines 144-146: the call is
\* refused before any attempt
GatewayReject ==
    /\ gw_pc = "call"
    /\ IF gw_call.fn = "analyze_image_with_ollama"
       THEN image_rejected(gw_call.input)
       ELSE too_short(gw_call.input)
    /\ gw_result' = NoneStr
    /\ gw_pc' = "returned"
    /\ UNCHANGED <<gw_call, attempts, slept, attempt_outcomes>>
    /\ gateway_unchanged

\* image_analyzer.py line 99, text_summarizer.py line 158: attempts = 0
GatewayEnter ==
    /\ gw_pc = "call"
    /\ IF gw_call.fn = "analyze_image_with_ollama"
       THEN ~image_rejected(gw_call.input)
       ELSE ~too_short(gw_call.input)
    /\ attempts' = 0
    /\ gw_pc' = "loop"
    /\ UNCHANGED <<gw_call, slept, attempt_outcomes, gw_result>>
    /\ gateway_unchanged

\* image_analyzer.py lines 102-109, text_summarizer.py lines 161-168: the loop is
\* entered again; it sleeps when an attempt was made before, and counts the attempt
BeginAttempt ==
    /\ gw_pc = "loop"
    /\ attempts < MAX_RETRIES
    /\ slept' = IF attempts > 0 THEN Append(slept, backoff(attempts)) ELSE slept
    /\ attempts' = attempts + 1
    /\ gw_pc' = "attempt"
    /\ UNCHANGED <<gw_call, attempt_outcomes, gw_result>>
    /\ gateway_unchanged

\* image_analyzer.py lines 123-173, text_summarizer.py lines 187-228: the remote
\* attempt returns or raises
AttemptResolves ==
    /\ gw_pc = "attempt"
    /\ \E outcome \in attempt_outcomes_of(gw_call) :
          /\ attempt_outcomes' = Append(attempt_outcomes, outcome)
          /\ IF attempt_returns(gw_call, outcome, attempts)
             THEN /\ gw_result' = attempt_value(gw_call, outcome)
                  /\ gw_pc' = "returned"
             ELSE /\ gw_result' = gw_result
                  /\ gw_pc' = "loop"
    /\ UNCHANGED <<gw_call, attempts, slept>>
    /\ gateway_unchanged

\* image_analyzer.py lines 175-177, text_summarizer.py lines 230-232: the loop ends
\* without a response
AttemptsExhausted ==
    /\ gw_pc = "loop"
    /\ ~(attempts < MAX_RETRIES)
    /\ gw_result' = NoneStr
    /\ gw_pc' = "returned"
    /\ UNCHANGED <<gw_call, attempts, slept, attempt_outcomes>>
    /\ gateway_unchanged

NextGateway ==
    \/ GatewayReject
    \/ GatewayEnter
    \/ BeginAttempt
    \/ AttemptResolves
    \/ AttemptsExhausted

SpecGateway == InitGateway /\ [][NextGateway]_vars

\* every remote attempt returns or raises, and the process keeps running
SpecGatewayLive == SpecGateway /\ WF_vars(NextGateway)

(***************************************************************************)
(* The Tile Planner alone: the arguments are drawn, the planner runs once. *)
(***************************************************************************)
AspectRatios ==
    { None, <<1, 2>>, <<3, 4>>, <<1, 1>>, <<6, 5>>, <<3, 2>>, <<8, 5>>, <<2, 1>> }

Overlaps == { <<0, 1>>, <<1, 5>>, <<1, 2>>, <<3, 4>> }

\* small images with small max_dim, and wide images with the default max_dim
\* (cut into landscape tiles, which keeps the number of boxes small)
PlanArgs ==
    [ width : 1..MaxW, height : 1..MaxH, max_dim : 1..MaxD,
      target_aspect_ratio : AspectRatios, overlap_percent : Overlaps ]
    \cup
    [ width : {1201, 2001}, height : 1..MaxH, max_dim : {1200},
      target_aspect_ratio : { r \in AspectRatios : r = None \/ r[1] > r[2] },
      overlap_percent : Overlaps ]

PlanInit ==
    /\ args \in PlanArgs
    /\ plan_pc = "call"
    /\ plan_out = <<>>
    /\ OrchIdle

PlanReturn ==
    /\ plan_pc = "call"
    /\ ~planning_raises(args)
    /\ plan_out' = chunk_coords(args)
    /\ plan_pc' = "returned"
    /\ UNCHANGED <<args, input_vars, local_vars, env_vars, run_vars, unit_vars>>

PlanRaise ==
    /\ plan_pc = "call"
    /\ planning_raises(args)
    /\ plan_pc' = "raised"
    /\ UNCHANGED <<args, plan_out, input_vars, local_vars, env_vars, run_vars, unit_vars>>

PlanNext == PlanReturn \/ PlanRaise

SpecPlan == PlanInit /\ [][PlanNext]_vars

(***************************************************************************)
(* Tile Planner properties                                                 *)
(***************************************************************************)
\* C1: every box of a returned plan lies inside the image and is not empty:
\* 0 <= left < right <= width and 0 <= top < bottom <= height.
C1_BoxesWithinBounds ==
    plan_pc = "returned" =>
        \A k \in 1..Len(plan_out) :
            LET b == plan_out[k]
            IN  /\ 0 <= b[1] /\ b[1] < b[3] /\ b[3] <= args.width
                /\ 0 <= b[2] /\ b[2] < b[4] /\ b[4] <= args.height

\* a plan of several columns and rows was returned whose last box is clamped
C1_Witness ==
    /\ plan_pc = "returned"
    /\ Len(plan_out) >= 4
    /\ \E k \in 2..Len(plan_out) :
          /\ plan_out[k][3] = args.width
          /\ plan_out[k][4] = args.height
          /\ plan_out[k][1] < plan_out[k - 1][3]
          /\ plan_out[k][2] > 0

\* C2: the boxes of a returned plan cover every pixel of the image.
C2_FullCoverage ==
    plan_pc = "returned" =>
        \A x \in 0..(args.width - 1), y \in 0..(args.height - 1) :
            \E k \in 1..Len(plan_out) :
                /\ plan_out[k][1] <= x /\ x < plan_out[k][3]
                /\ plan_out[k][2] <= y /\ y < plan_out[k][4]

\* a plan was returned whose boxes are smaller than the image, so that the right
\* and bottom edges are covered only by a clamped last column and row
C2_Witness ==
    /\ plan_pc = "returned"
    /\ Len(plan_out) >= 2
    /\ \A k \in 1..Len(plan_out) :
          /\ plan_out[k][3] - plan_out[k][1] < args.width
          /\ plan_out[k][4] - plan_out[k][2] < args.height
    /\ \E k \in 1..Len(plan_out) :
          /\ plan_out[k][3] = args.width
          /\ plan_out[k][1] % Max(1, step_size(plan_out[k][3] - plan_out[k][1],
                                                args.overlap_percent)) # 0

\* C3: an image within max_dim whose aspect ratio is in [0.75, 1.5] is planned
\* as exactly one box, the full image.
C3_SmallImageSingleBox ==
    ( /\ plan_pc # "call"
      /\ args.width <= args.max_dim
      /\ args.height <= args.max_dim
      /\ 3 * args.height <= 4 * args.width
      /\ 2 * args.width <= 3 * args.height )
    => /\ plan_pc = "returned"
       /\ plan_out = << <<0, 0, args.width, args.height>> >>

\* such an image was planned, with a ratio under which tiling would have split it
C3_Witness ==
    /\ plan_pc = "returned"
    /\ args.width = args.max_dim
    /\ args.height < args.max_dim
    /\ 3 * args.height <= 4 * args.width
    /\ 2 * args.width <= 3 * args.height
    /\ args.target_aspect_ratio = <<1, 2>>
    /\ plan_out = << <<0, 0, args.width, args.height>> >>

\* the grid of lines 60-77 taken in full, row by row: num_y_chunks rows of
\* num_x_chunks clamped boxes (the loops of the source leave a row, and the grid,
\* at the first box that touches the edge)
FullGrid(a) ==
    LET g  == geometry(a.width, a.height, a.target_aspect_ratio, a.overlap_percent, a.max_dim)
        nx == Max(1, ((g.image_width - g.chunk_width) \div g.step_x) + 2)
        ny == Max(1, ((g.image_height - g.chunk_height) \div g.step_y) + 2)
    IN  [ k \in 1..(nx * ny) |->
            LET x    == (k - 1) % nx
                y    == (k - 1) \div nx
                left == Min(x * g.step_x, g.image_width - g.chunk_width)
                top  == Min(y * g.step_y, g.image_height - g.chunk_height)
            IN  <<left, top, left + g.chunk_width, top + g.chunk_height>> ]

\* a list without the repetitions of its elements: the first occurrence stays
KeepFirst(s) ==
    LET firsts == { k \in 1..Len(s) : \A j \in 1..(k - 1) : s[j] # s[k] }
        nth(n) == CHOOSE k \in firsts : Cardinality({ j \in firsts : j <= k }) = n
    IN  [ n \in 1..Cardinality(firsts) |-> s[nth(n)] ]

\* box b comes before box c in row-major order: higher up, or as high and further left
RowMajorBefore(b, c) == b[2] < c[2] \/ (b[2] = c[2] /\ b[1] < c[1])

\* the planner went through calculate_optimal_chunks
Tiled == ~needs_no_chunking(args.width, args.height, args.max_dim)

\* C19: no two boxes of a returned plan are equal; the plan is the full grid of
\* clamped boxes with only the first occurrence of every box kept, and its boxes
\* are in row-major order.
C19_NoDuplicateBoxes ==
    plan_pc = "returned" =>
        /\ \A j, k \in 1..Len(plan_out) : plan_out[j] = plan_out[k] => j = k
        /\ \A k \in 1..(Len(plan_out) - 1) : RowMajorBefore(plan_out[k], plan_out[k + 1])
        /\ Tiled => plan_out = KeepFirst(FullGrid(args))

\* a plan of several rows and columns was returned for an image in whose grid the
\* clamping at the right edge and at the bottom edge gives the same box twice
C19_Witness ==
    /\ plan_pc = "returned"
    /\ Tiled
    /\ Len(plan_out) >= 4
    /\ plan_out[2][2] = plan_out[1][2]
    /\ plan_out[Len(plan_out)][2] > plan_out[1][2]
    /\ LET grid == FullGrid(args)
       IN  /\ \E j, k \in 1..Len(grid) : j < k /\ grid[j] = grid[k] /\ grid[j][2] = 0
           /\ \E j, k \in 1..Len(grid) : j < k /\ grid[j] = grid[k] /\ grid[j][1] = 0
           /\ Len(grid) > Len(plan_out)

(***************************************************************************)
(* Chunk Orchestrator properties                                           *)
(***************************************************************************)
IsVisionCall(c) == c.fn = "analyze_image_with_ollama"

IsTileCall(c) == IsVisionCall(c) /\ c.path # image_path

IsSummaryCall(c) == c.fn = "summarize_text"

\* the per-tile calls, the combination calls, and what the finished ones returned
TileCalls == SelectSeq(calls, IsTileCall)

SummaryCalls == SelectSeq(calls, IsSummaryCall)

VisionReplies == SelectSeq(replies, LAMBDA r : IsVisionCall(calls[r.call]))

TileReplies == SelectSeq(replies, LAMBDA r : IsTileCall(calls[r.call]))

SummaryReplies == SelectSeq(replies, LAMBDA r : IsSummaryCall(calls[r.call]))

\* the number of times piece p occurs in s
Occurrences(s, p) == Cardinality({ k \in 1..Len(s) : s[k] = p })

\* the values of the successful replies, in order
SuccessfulValues(rs) ==
    LET ok == SelectSeq(rs, LAMBDA r : Truthy(r.value))
    IN  [k \in 1..Len(ok) |-> ok[k].value]

\* the file name of the tile a reply is about
TileOf(r) == calls[r.call].path[2]

\* C4: a tile whose inference fails or is empty does not abort the run: every
\* valid tile is still submitted, in order; the failed tile adds nothing to the
\* per-tile list nor to the assembled document; and when at least one tile
\* succeeded the run ends with a result.
C4_FailedTileDoesNotAbort ==
    (pc = "done" /\ TileReplies # <<>>) =>
        /\ Len(TileCalls) = Len(valid_chunks_idx)
        /\ \A k \in 1..Len(TileCalls) : TileCalls[k].path = valid_chunk_paths[k]
        /\ chunk_analyses = SuccessfulValues(TileReplies)
        /\ \A k \in 1..Len(TileReplies) :
              ~Truthy(TileReplies[k].value) =>
                  /\ TileOf(TileReplies[k]) \notin Range(result[1])
                  /\ \A a \in Range(result[2]) : TileOf(TileReplies[k]) \notin Range(a)
        /\ SummaryCalls # <<>> =>
              Occurrences(combined_text, "--- CHUNK ") = Len(SuccessfulValues(TileReplies))
        /\ (\E k \in 1..Len(TileReplies) : Truthy(TileReplies[k].value)) =>
              Truthy(result[1])

\* a run has ended in which the first tile failed, the second was empty, and two
\* later tiles succeeded
C4_Witness ==
    /\ pc = "done"
    /\ Len(TileReplies) >= 4
    /\ TileReplies[1].outcome.failed
    /\ ~TileReplies[2].outcome.failed /\ TileReplies[2].value = <<>>
    /\ Truthy(TileReplies[3].value)
    /\ Truthy(TileReplies[4].value)
    /\ Truthy(result[1])

\* C5: when every tile inference fails or is empty, the run ends with no result,
\* with the error "All chunk analyses failed or were blank", and without any
\* combination call.
C5_AllTilesFailedAborts ==
    ( /\ pc = "done"
      /\ TileReplies # <<>>
      /\ \A k \in 1..Len(TileReplies) : ~Truthy(TileReplies[k].value) )
    => /\ result = <<NoneStr, <<>>>>
       /\ errors # <<>>
       /\ errors[Len(errors)] = "All chunk analyses failed or were blank"
       /\ SummaryCalls = <<>>

\* a run has ended in which one tile failed, one returned white space, one was empty
C5_Witness ==
    /\ pc = "done"
    /\ Len(TileReplies) = 3
    /\ TileReplies[1].outcome.failed
    /\ TileReplies[2].outcome.full_response = <<" ">>
    /\ ~TileReplies[3].outcome.failed /\ TileReplies[3].outcome.full_response = <<>>
    /\ result = <<NoneStr, <<>>>>

\* C6: when exactly one inference succeeded, the result is the response of that
\* inference, unchanged, and no combination call is made.
C6_SingleSuccessIsResult ==
    (pc = "done" /\ Len(SuccessfulValues(VisionReplies)) = 1) =>
        /\ \E k \in 1..Len(VisionReplies) :
              /\ Truthy(VisionReplies[k].value)
              /\ result[1] = VisionReplies[k].outcome.full_response
        /\ result[2] = <<result[1]>>
        /\ SummaryCalls = <<>>

\* a run of three tiles has ended in which only the second succeeded
C6_Witness ==
    /\ pc = "done"
    /\ Len(TileReplies) = 3
    /\ ~Truthy(TileReplies[1].value)
    /\ Truthy(TileReplies[2].value)
    /\ ~Truthy(TileReplies[3].value)
    /\ result[1] = <<" ", "#", "chunk_001.png", "=", "\n">>

\* the number of boxes of the plan that are not blank
NonBlank == num_boxes(args) - Cardinality(blank_boxes)

C8_SingleBoxOneCall ==
    (pc = "done" /\ readable /\ num_boxes(args) = 1) =>
        calls = << vision_call(image_path, prompt) >>

\* C9: when the plan has more than one box and at least one tile is not blank,
\* no inference is submitted on the whole source image.
C9_FastPathOnlySingleBox ==
    (readable /\ num_boxes(args) > 1 /\ NonBlank >= 1) =>
        \A k \in 1..Len(calls) : IsVisionCall(calls[k]) => calls[k].path # image_path

\* C10: when the combination call fails, the text returned is the intermediate
\* document built before the call, piece for piece.
C10_DegradedIsConcatenation ==
    ( /\ pc = "done"
      /\ SummaryReplies # <<>>
      /\ ~Truthy(SummaryReplies[1].value) )
    => /\ result[1] = combined_text
       /\ result[1] = build_combined_text(chunk_analyses, SelectSeq(chunk_analyses, Truthy))
       /\ result[1] = SummaryCalls[1].text

\* the combination call of a run has failed, on a document that sanitizing changes
C10_Witness ==
    /\ pc = "done"
    /\ SummaryReplies # <<>>
    /\ SummaryReplies[1].outcome.failed
    /\ Len(combined_text) > 10
    /\ sanitize(combined_text) # combined_text
    /\ result[1] = combined_text

\* the combination call of the run was made and gave no text
Degraded == pc = "done" /\ SummaryReplies # <<>> /\ ~Truthy(SummaryReplies[1].value)

\* what is returned has, besides the text and the per-tile list, a component that
\* says whether the text is the fallback document
HasDegradationFlag(returned) == Len(returned) > 2 /\ returned[3] \in BOOLEAN

\* C11: when the combination call fails, what the caller receives carries a flag
\* that tells the fallback document from a merged result.
C11_DegradedIsFlagged ==
    Degraded => HasDegradationFlag(result) /\ result[3]

\* C12: a run that returns never returns the empty string as its text: the text is
\* either not empty or None (the abort).
C12_NeverEmptyString ==
    pc = "done" => result[1] # <<>>

\* the run returned without a text
Aborted == pc = "done" /\ result[1] = NoneStr

\* why an aborted run has no text
AbortKind ==
    IF ~readable \/ planning_raises(args) THEN "extraction-failed"
    ELSE IF VisionReplies = <<>> THEN "no-valid-tiles"
    ELSE "all-tiles-failed"

\* the return statements of an abort and the outcomes each one ends
AbortReturns ==
    { [ line |-> 61,  kind |-> "extraction-failed" ],
      [ line |-> 61,  kind |-> "no-valid-tiles" ],
      [ line |-> 108, kind |-> "no-valid-tiles" ],
      [ line |-> 142, kind |-> "all-tiles-failed" ] }

\* C13: what the caller receives from an aborted run is received for no other
\* kind of abort: no-valid-tiles, all-tiles-failed and extraction-failed can be
\* told apart.
C13_AbortKindsDistinguishable ==
    Aborted =>
        \A r \in AbortReturns : r.kind # AbortKind => abort_return(r.line) # result

\* C14: once the temporary directory has been created, when the function is left
\* (by a return or by an exception) the directory and every file in it are gone.
C14_StagingRemovedOnExit ==
    (pc \in { "done", "raised" } /\ temp_dir # "none") =>
        /\ temp_dir = "removed"
        /\ temp_files = {}

\* the document of Assembling was built
Assembled == SummaryCalls # <<>>

\* the positions in the document at which the header of an entry begins
HeaderPositions == { k \in 1..Len(combined_text) : combined_text[k] = "--- CHUNK " }

\* the file names of the extracted tiles, and the tile (0-based) of a file name
TileFileNames == { chunk_file_name(i) : i \in 0..(Len(chunks) - 1) }

TileIndexOf(name) == CHOOSE i \in 0..(Len(chunks) - 1) : chunk_file_name(i) = name

\* the tiles whose transcription a text holds, in the order of the text
TilesIn(text) ==
    LET names == SelectSeq(text, LAMBDA p : p \in TileFileNames)
    IN  [k \in 1..Len(names) |-> TileIndexOf(names[k])]

\* the entry that begins at position k of the document: the index and the box in
\* its header, and the tile its text is the transcription of
HeaderIndex(k) == combined_text[k + 1]

HeaderBox(k) ==
    << combined_text[k + 3], combined_text[k + 5], combined_text[k + 7], combined_text[k + 9] >>

EntryTile(k) == TileIndexOf(combined_text[k + 16])

BoxAsText(coords) == [j \in 1..4 |-> ToString(coords[j])]

\* C15: in the document of Assembling, the header of every entry carries the index
\* and the box of the tile whose text follows it.
C15_HeaderMatchesTile ==
    Assembled =>
        \A k \in HeaderPositions :
            /\ HeaderIndex(k) = ToString(EntryTile(k) + 1)
            /\ HeaderBox(k) = BoxAsText(chunks[EntryTile(k) + 1].coords)

\* the tiles (0-based) whose inference succeeded, in the order of the replies
SuccessfulTiles ==
    LET ok == SelectSeq(TileReplies, LAMBDA r : Truthy(r.value))
    IN  [k \in 1..Len(ok) |-> TileIndexOf(TileOf(ok[k]))]

\* a list of tiles is in canonical order without repetition
Canonical(tiles) ==
    \A k \in 1..(Len(tiles) - 1) :
        /\ tiles[k] < tiles[k + 1]
        /\ RowMajorBefore(chunks[tiles[k] + 1].coords, chunks[tiles[k + 1] + 1].coords)

\* the tiles of the texts of a list, one text after the other
RECURSIVE TilesOfList(_)
TilesOfList(texts) ==
    IF texts = <<>> THEN <<>> ELSE TilesIn(Head(texts)) \o TilesOfList(Tail(texts))

\* C16: after the tile loop, the per-tile list returned and the document of
\* Assembling hold the texts of the successful tiles, each once, in row-major
\* order of their boxes; no text of a blank, failed or empty tile is in either.
C16_SuccessfulTextsInOrder ==
    (pc = "done" /\ TileReplies # <<>>) =>
        /\ result[2] = SuccessfulValues(TileReplies)
        /\ TilesOfList(result[2]) = SuccessfulTiles
        /\ Canonical(SuccessfulTiles)
        /\ \A k \in 1..Len(SuccessfulTiles) :
              chunks[SuccessfulTiles[k] + 1].image \notin blank_boxes
        /\ Assembled =>
              /\ TilesIn(combined_text) = SuccessfulTiles
              /\ \A k \in 1..Len(result[2]) :
                    Occurrences(combined_text, result[2][k][3]) = 1

\* a run of four tiles has ended, the second tile blank, the third failed: the
\* document holds the first and the fourth tile
C16_Witness ==
    /\ pc = "done"
    /\ num_boxes(args) = 4
    /\ blank_boxes = {2}
    /\ Len(TileReplies) = 3
    /\ Truthy(TileReplies[1].value)
    /\ ~Truthy(TileReplies[2].value)
    /\ Truthy(TileReplies[3].value)
    /\ Assembled
    /\ TilesIn(combined_text) = <<0, 2>>
    /\ Len(result[2]) = 2

\* the tiles that survive extraction and validation, in the order of extraction
SurvivingPaths ==
    LET kept == SelectSeq([k \in 1..Len(chunks) |-> k],
                          LAMBDA k : /\ chunks[k].image \notin blank_boxes
                                     /\ chunks[k].image \notin fault.reopen)
    IN  [j \in 1..Len(kept) |-> chunk_path_of(kept[j] - 1)]

\* C17: the calls of a run are resolved one by one in the order they are made, a
\* call is made only when no call is in flight; the per-tile calls are the
\* surviving tiles in canonical order, each at most once, and all of them once
\* the tile loop has ended.
C17_SequentialSubmissions ==
    /\ Len(calls) - Len(replies) \in { 0, 1 }
    /\ \A k \in 1..Len(replies) : replies[k].call = k
    /\ pc \in { "tile_call", "fast_call", "final_call" } => Len(calls) = Len(replies) + 1
    /\ pc \in { "start", "staging", "tile_loop", "done" } => Len(calls) = Len(replies)
    /\ Len(TileCalls) <= Len(SurvivingPaths)
    /\ \A k \in 1..Len(TileCalls) : TileCalls[k].path = SurvivingPaths[k]
    /\ \A j, k \in 1..Len(TileCalls) : TileCalls[j].path = TileCalls[k].path => j = k
    /\ (pc \in { "final_call", "done" } /\ Len(chunks) >= 2 /\ chunk_paths # <<>>) =>
          Len(TileCalls) = Len(SurvivingPaths)

\* a run of four tiles has ended in which the first inference failed and the
\* second was empty: four per-tile calls were made, then the combination call
C17_Witness ==
    /\ pc = "done"
    /\ Len(TileCalls) = 4
    /\ TileReplies[1].outcome.failed
    /\ TileReplies[2].value = <<>>
    /\ Len(SummaryCalls) = 1
    /\ Len(replies) = 5

\* validation (lines 89-102) has been gone through
Validated == pc \in { "tile_loop", "tile_call", "final_call" } \/ (pc = "done" /\ chunk_paths # <<>>)

\* the boxes on which the blankness analysis fails: is_image_blank raises inside,
\* or the staged file cannot be opened for it
AnalysisFails == fault.unanalysable \cup fault.reopen

\* C20: a tile on which the blankness analysis fails is kept by chunk_image and
\* by the validation, and is submitted for inference.
C20_FailOpen ==
    Validated =>
        \A b \in AnalysisFails :
            \E i \in 0..(Len(chunks) - 1) :
                /\ chunks[i + 1].image = b
                /\ i \in Range(valid_chunks_idx)
                /\ (pc = "done" => \E k \in 1..Len(TileCalls) :
                                      TileCalls[k].path = chunk_path_of(i))

\* C18: the second call of the function on the same image, with the same
\* parameters and a gateway that answers every request as in the first call,
\* makes the same requests and returns what the first call returned: the same
\* text and the same per-tile list, in the same order.
C18_RepeatedRunsAgree ==
    (run = 2 /\ pc = "done") =>
        /\ result = first_run.result
        /\ Len(calls) = Len(first_run.calls)
        /\ \A k \in 1..Len(calls) : same_request(calls[k], first_run.calls[k])
        /\ \A k \in 1..Len(replies) : replies[k].value = first_run.replies[k].value

\* the second call has returned for an image of two tiles, both transcribed, the
\* combination call failing both times: the text returned is the document, and
\* the tiles were staged in a directory other than the first call's
C18_Witness ==
    /\ run = 2
    /\ pc = "done"
    /\ Len(TileCalls) = 2
    /\ Len(result[2]) = 2
    /\ Degraded
    /\ result[1] = combined_text
    /\ TileCalls[1].path[1] # first_run.calls[1].path[1]
    /\ temp_dir = "removed"

\* C28: for every image of at least one pixel, max_dim >= 1 and an overlap in
\* [0, 1), planning does not raise and the plan returned has at least one box.
C28_PlanningCompletes ==
    ( /\ plan_pc # "call"
      /\ args.width >= 1 /\ args.height >= 1 /\ args.max_dim >= 1
      /\ args.overlap_percent[1] >= 0
      /\ args.overlap_percent[1] < args.overlap_percent[2] )
    => /\ plan_pc = "returned"
       /\ plan_out # <<>>

\* C30: the boxes of a returned plan all have the width and the height of the
\* first one, and neither is larger than max_dim or than the image.
C30_UniformBoxSize ==
    plan_pc = "returned" =>
        \A k \in 1..Len(plan_out) :
            LET w == plan_out[k][3] - plan_out[k][1]
                h == plan_out[k][4] - plan_out[k][2]
            IN  /\ w = plan_out[1][3] - plan_out[1][1]
                /\ h = plan_out[1][4] - plan_out[1][2]
                /\ w <= args.max_dim /\ w <= args.width
                /\ h <= args.max_dim /\ h <= args.height

\* a plan of several boxes was returned for a portrait ratio, the boxes as high as
\* max_dim allows and narrower than that, on an image larger than max_dim both ways
C30_Witness ==
    /\ plan_pc = "returned"
    /\ Tiled
    /\ Len(plan_out) >= 4
    /\ args.target_aspect_ratio = <<1, 2>>
    /\ args.width > args.max_dim
    /\ args.height > args.max_dim
    /\ plan_out[1][4] - plan_out[1][2] = args.max_dim
    /\ plan_out[1][3] - plan_out[1][1] < args.max_dim

\* C24: the combination call sends the document of Assembling under the
\* combination instruction, CHUNK_COMBINE_PROMPT, and under no other prompt.
C24_CombinationInstruction ==
    \A k \in 1..Len(SummaryCalls) :
        /\ SummaryCalls[k].text = combined_text
        /\ SummaryCalls[k].prompt = combine_prompt(Len(SelectSeq(chunk_analyses, Truthy)))

\* C25: a per-tile call carries the caller's prompt when there is one; when there
\* is none, the prompts of the calls of different tiles differ.
C25_PerTilePrompt ==
    \A k \in 1..Len(TileCalls) :
        IF prompt # NoPrompt
        THEN TileCalls[k].prompt = prompt
        ELSE \A j \in 1..Len(TileCalls) :
                j # k => TileCalls[j].prompt # TileCalls[k].prompt

\* C26: when an interrupt has ended the run, no gateway call is left without its
\* outcome: every call that was started has resolved.
C26_InterruptBetweenCalls ==
    (pc = "raised" /\ raised = "KeyboardInterrupt") => Len(replies) = Len(calls)

\* C23: with save_chunks, chunk_image writes one file for every tile it returns,
\* and the file of the j-th tile returned (from 0) is chunk_{j:03d}.png.
C23_SavedFilesSequential ==
    (chunk_pc = "returned" /\ save_chunks /\ ~chunk_image_raises) =>
        output_files = [j \in 1..Len(chunks) |-> chunk_file_name(j - 1)]

\* the colour a pixel of the region shows
ShownColour(image, pixel) ==
    IF image.mode = "P" THEN image.palette[pixel]
    ELSE IF image.mode = "L" THEN <<pixel, pixel, pixel>>
    ELSE pixel

\* the pixel of the region at column x and row y
PixelAt(image, x, y) == image.pixels[y * image.width + x + 1]

\* every pixel of the region shows the same colour
IsUniform(image) ==
    \A k \in 1..Len(image.pixels) :
        ShownColour(image, image.pixels[k]) = ShownColour(image, image.pixels[1])

\* the region is a checkerboard of two colours: the colour of a pixel is that of
\* the first pixel where column + row is even and another one where it is odd
IsCheckerboard(image) ==
    /\ image.width * image.height >= 2
    /\ \E odd \in { ShownColour(image, image.pixels[k]) : k \in 1..Len(image.pixels) } :
          /\ odd # ShownColour(image, image.pixels[1])
          /\ \A x \in 0..(image.width - 1), y \in 0..(image.height - 1) :
                ShownColour(image, PixelAt(image, x, y)) =
                    IF (x + y) % 2 = 0 THEN ShownColour(image, image.pixels[1]) ELSE odd

\* the difference in luminance between the two colours of a checkerboard
LuminanceDifference(image) ==
    LET l == { rgb_to_l(ShownColour(image, image.pixels[k])) : k \in 1..Len(image.pixels) }
        lo == CHOOSE v \in l : \A u \in l : v <= u
        hi == CHOOSE v \in l : \A u \in l : v >= u
    IN  hi - lo

\* C21: is_image_blank returns True for every region of a single colour, whatever
\* the colour, the size of the region and the threshold.
C21_UniformIsBlank ==
    (blank_pc = "returned" /\ IsUniform(region)) => is_blank = TRUE

\* a region of several pixels of one colour that is not a gray was found blank
\* with threshold 0
C21_Witness ==
    /\ blank_pc = "returned"
    /\ IsUniform(region)
    /\ region.mode = "RGB"
    /\ region.pixels[1] = <<255, 0, 0>>
    /\ region.width * region.height >= 4
    /\ threshold = 0
    /\ is_blank = TRUE

\* C22: is_image_blank returns False for every checkerboard of two colours whose
\* luminances differ by more than threshold.
C22_CheckerboardIsNotBlank ==
    ( /\ blank_pc = "returned"
      /\ IsCheckerboard(region)
      /\ LuminanceDifference(region) > threshold )
    => is_blank = FALSE

\* the remote attempts of the call that failed: they raised, or (summarize_text)
\* streamed nothing
FailedAttempts ==
    { k \in 1..Len(attempt_outcomes) :
        \/ attempt_outcomes[k].raised # "none"
        \/ gw_call.fn = "summarize_text" /\ attempt_outcomes[k].full_response = <<>> }

\* the remote attempts of the call that raised an error containing GGML_ASSERT
GGMLFailures == { k \in 1..Len(attempt_outcomes) : attempt_outcomes[k].raised = "GGML_ASSERT" }

\* C27: a gateway call makes at most MAX_RETRIES remote attempts, every attempt
\* but the last one made has failed, the wait before the attempt that follows n
\* failed ones is REQUEST_COOLDOWN * 2^n, a call that has returned holds a string or
\* None, and the call eventually returns.
C27_BoundedRetries ==
    /\ [] ( /\ attempts <= MAX_RETRIES
            /\ Len(attempt_outcomes) <= attempts
            /\ attempts <= Len(attempt_outcomes) + 1
            /\ \A k \in 1..(Len(attempt_outcomes) - 1) : k \in FailedAttempts
            /\ Len(slept) = Max(attempts - 1, 0)
            /\ \A n \in 1..Len(slept) : slept[n] = REQUEST_COOLDOWN * (2 ^ n)
            /\ gw_pc = "returned" =>
                  \/ gw_result = NoneStr
                  \/ gw_result = <<>>
                  \/ /\ attempt_outcomes # <<>>
                     /\ gw_result = attempt_outcomes[Len(attempt_outcomes)].full_response )
    /\ <>(gw_pc = "returned")

\* a call of summarize_text has returned None after MAX_RETRIES failed attempts,
\* having waited 2 and 4 seconds
C27_Witness ==
    /\ gw_pc = "returned"
    /\ gw_call.fn = "summarize_text"
    /\ Len(attempt_outcomes) = MAX_RETRIES
    /\ FailedAttempts = 1..MAX_RETRIES
    /\ slept = <<2, 4>>
    /\ gw_result = NoneStr

\* C29: analyze_image_with_ollama answers an error containing GGML_ASSERT with an
\* empty response only from the second attempt that failed with such an error on:
\* the first GGML_ASSERT failure of a call is followed by another attempt.
C29_FirstGGMLFailureIsRetried ==
    ( /\ gw_call.fn = "analyze_image_with_ollama"
      /\ gw_pc = "returned"
      /\ GGMLFailures # {} )
    => Cardinality(GGMLFailures) >= 2
====
